---- MODULE Spec2Model ----
(***************************************************************************)
(* Model of the conversation memory of JD AI Assistant (src/App.py): the   *)
(* process-wide snapshot `conversations`, the conversations file, the flat *)
(* training log, and the operations jd_reply_core,                         *)
(* load_conversation_by_title and process start (load_conversations).      *)
(*                                                                         *)
(* Specifications: Spec (the operations, each run to its end),             *)
(* MemorySpec (build_messages_from_memory), TitleSpec                      *)
(* (extract_title_from_history), UiSpec (the event handlers on_send,       *)
(* on_new_chat, on_select_topic of one browser session) and                *)
(* ConcurrentSpec (jd_reply_core step by step under the two listeners of   *)
(* on_send).                                                               *)
(*                                                                         *)
(* A Python str is a sequence of one-character strings; a fixed literal of *)
(* the source is a sequence holding that literal.  None is the id 0, the   *)
(* ids str(uuid.uuid4()) are the numbers of Ids.                           *)
(***************************************************************************)
EXTENDS Naturals, Sequences, FiniteSets, TLC

\* ----------------------------------------------------------------- bounds

\* Non-blank jd_reply_core calls started in one behaviour.
MaxCalls == 2
\* Turns of one stored conversation in the snapshots of MemorySpec.
MaxTurns == 30
\* Words of a first user text in the histories of TitleSpec.
MaxWords == 12
\* Non-blank on_send events of one behaviour of UiSpec.
MaxSends == 3
\* on_send events delivered in one behaviour of ConcurrentSpec.
MaxEvents == 2

\* ------------------------------------------------------ program constants

\* words[:10] and len(words) > 10
TitleWords == 10
\* mem_pairs[-50:]
MemoryWindow == 50
\* full_turns[-5:]
ShownTurns == 5

\* --------------------------------------------------------------- strings

Whitespace == {" ", "\t", "\n"}

RECURSIVE lstrip(_)
lstrip(s) ==
    IF s = <<>> THEN s
    ELSE IF Head(s) \in Whitespace THEN lstrip(Tail(s)) ELSE s

RECURSIVE rstrip(_)
rstrip(s) ==
    IF s = <<>> THEN s
    ELSE IF s[Len(s)] \in Whitespace THEN rstrip(SubSeq(s, 1, Len(s) - 1)) ELSE s

\* strip left out: the text as it is
strip_nothing(s) == s

\* str.strip()
strip(s) == rstrip(lstrip(s))

RECURSIVE split_from(_, _, _)
split_from(s, word, words) ==
    IF s = <<>> THEN (IF word = <<>> THEN words ELSE Append(words, word))
    ELSE IF Head(s) \in Whitespace
         THEN split_from(Tail(s), <<>>,
                         IF word = <<>> THEN words ELSE Append(words, word))
         ELSE split_from(Tail(s), Append(word, Head(s)), words)

\* str.split(): the maximal runs of non-whitespace characters
split(s) == split_from(s, <<>>, <<>>)

RECURSIVE join(_, _)
\* sep.join(parts)
join(sep, parts) ==
    IF parts = <<>> THEN <<>>
    ELSE IF Len(parts) = 1 THEN parts[1]
    ELSE parts[1] \o sep \o join(sep, Tail(parts))

\* seq[:n]
FirstN(seq, n) == SubSeq(seq, 1, IF Len(seq) < n THEN Len(seq) ELSE n)

\* seq[-n:]
LastN(seq, n) == SubSeq(seq, IF Len(seq) > n THEN Len(seq) - n + 1 ELSE 1, Len(seq))

NewChat == <<"N", "e", "w", " ", "c", "h", "a", "t">>
Ellipsis == <<"U+2026">>

\* extract_title_from_history marking a text of exactly TitleWords words
\* as shortened
extract_title_from_history_early_mark(history) ==
    IF history = <<>> THEN NewChat
    ELSE LET first_user == strip(history[1][1])
             words == split(first_user)
             short == join(<<" ">>, FirstN(words, TitleWords))
         IN  IF first_user = <<>> THEN NewChat
             ELSE short \o (IF Len(words) >= TitleWords THEN Ellipsis ELSE <<>>)

\* extract_title_from_history: the title of a history (a sequence of
\* <<user text, assistant text>> pairs).
extract_title_from_history(history) ==
    IF history = <<>> THEN NewChat
    ELSE LET first_user == strip(history[1][1])
             words == split(first_user)
             short == join(<<" ">>, FirstN(words, TitleWords))
         IN  IF first_user = <<>> THEN NewChat
             ELSE short \o (IF Len(words) > TitleWords THEN Ellipsis ELSE <<>>)

\* ------------------------------------------------------------------ JSON

JString(s) == [t |-> "string", v |-> s]
JArray(items) == [t |-> "array", v |-> items]
JObject(members) == [t |-> "object", v |-> members]

\* json.dump(convs, f): the document written for a snapshot
json_dump(convs) ==
    JArray([i \in 1..Len(convs) |->
        JObject([id |-> JString(convs[i].id),
                 title |-> JString(convs[i].title),
                 turns |-> JArray([k \in 1..Len(convs[i].turns) |->
                     JArray(<<JString(convs[i].turns[k][1]),
                              JString(convs[i].turns[k][2])>>)])])])

\* json.load(f) of a document that is a list of conversation objects
json_load(doc) ==
    [i \in 1..Len(doc.v) |->
        [id |-> doc.v[i].v.id.v,
         title |-> doc.v[i].v.title.v,
         turns |-> [k \in 1..Len(doc.v[i].v.turns.v) |->
             <<doc.v[i].v.turns.v[k].v[1].v, doc.v[i].v.turns.v[k].v[2].v>>]]]

\* The conversations file: missing, holding text that is not JSON (also a
\* truncated or partial write), or holding a JSON document.
NoFile == [state |-> "absent", doc |-> JArray(<<>>)]
BadFile == [state |-> "corrupt", doc |-> JArray(<<>>)]
JsonFile(doc) == [state |-> "json", doc |-> doc]

\* load_conversations
load_conversations(file) ==
    IF file.state = "absent" THEN <<>>
    ELSE IF file.state = "corrupt" THEN <<>>
    ELSE IF file.doc.t = "array" THEN json_load(file.doc)
    ELSE <<>>

\* save_conversations: open(path, "w") then json.dump.  fault "open_fails":
\* open raises, the file is as it was; "write_fails": the write raises
\* after open truncated the file.
save_conversations(file, convs, fault) ==
    IF fault = "open_fails" THEN [file |-> file, raised |-> TRUE]
    ELSE IF fault = "write_fails" THEN [file |-> BadFile, raised |-> TRUE]
    ELSE [file |-> JsonFile(json_dump(convs)), raised |-> FALSE]

\* log_flat_pair without its guard on empty texts
log_flat_pair_unguarded(flat, user_text, assistant_text, fault) ==
    IF fault = "fails" THEN [flat |-> flat, raised |-> TRUE]
    ELSE [flat |-> Append(flat, [instruction |-> user_text,
                                 output |-> assistant_text]),
          raised |-> FALSE]

\* log_flat_pair: appends one record unless either text is empty.
log_flat_pair(flat, user_text, assistant_text, fault) ==
    IF user_text = <<>> \/ assistant_text = <<>>
    THEN [flat |-> flat, raised |-> FALSE]
    ELSE IF fault = "fails" THEN [flat |-> flat, raised |-> TRUE]
    ELSE [flat |-> Append(flat, [instruction |-> user_text,
                                 output |-> assistant_text]),
          raised |-> FALSE]

\* -------------------------------------------------------- memory system

\* all_memory_pairs: every conversation's turns, in store order
RECURSIVE all_memory_pairs(_)
all_memory_pairs(convs) ==
    IF convs = <<>> THEN <<>>
    ELSE [k \in 1..Len(convs[1].turns) |->
             [instruction |-> convs[1].turns[k][1],
              output |-> convs[1].turns[k][2]]]
         \o all_memory_pairs(Tail(convs))

SystemPrompt == <<"You are JD, an AI Assistant created by Kunal Debnath Sir. You remember previous chats and stay friendly and concise.">>
SummaryLabel == <<"Here is a summary of past conversation turns:", "\n", "\n">>
UserLabel == <<"U", "s", "e", "r", ":", " ">>
AssistantLabel == <<"\n", "A", "s", "s", "i", "s", "t", "a", "n", "t", ":", " ">>

Message(role, content) == [role |-> role, content |-> content]

\* f"User: {p['instruction']}\nAssistant: {p['output']}"
mem_text(p) == UserLabel \o p.instruction \o AssistantLabel \o p.output

\* build_messages_from_memory keeping the first pairs instead of the last
build_messages_from_memory_oldest(convs) ==
    LET mem_pairs == all_memory_pairs(convs)
        window == FirstN(mem_pairs, MemoryWindow)
        mem_texts == [k \in 1..Len(window) |-> mem_text(window[k])]
        block == IF mem_texts # <<>> THEN join(<<"\n", "\n">>, mem_texts) ELSE <<>>
    IN  IF block # <<>>
        THEN <<Message("system", SystemPrompt),
               Message("system", SummaryLabel \o block)>>
        ELSE <<Message("system", SystemPrompt)>>

\* build_messages_from_memory
build_messages_from_memory(convs) ==
    LET mem_pairs == all_memory_pairs(convs)
        window == LastN(mem_pairs, MemoryWindow)
        mem_texts == [k \in 1..Len(window) |-> mem_text(window[k])]
        block == IF mem_texts # <<>> THEN join(<<"\n", "\n">>, mem_texts) ELSE <<>>
    IN  IF block # <<>>
        THEN <<Message("system", SystemPrompt),
               Message("system", SummaryLabel \o block)>>
        ELSE <<Message("system", SystemPrompt)>>

\* the messages jd_reply_core hands to ollama.chat
RECURSIVE history_messages(_)
history_messages(ui_history) ==
    IF ui_history = <<>> THEN <<>>
    ELSE <<Message("user", ui_history[1][1]),
           Message("assistant", ui_history[1][2])>>
         \o history_messages(Tail(ui_history))

\* the messages with the session turns put before the memory messages
chat_messages_session_first(convs, ui_history, user_input) ==
    history_messages(ui_history)
        \o build_messages_from_memory(convs)
        \o <<Message("user", user_input)>>

chat_messages(convs, ui_history, user_input) ==
    build_messages_from_memory(convs)
        \o history_messages(ui_history)
        \o <<Message("user", user_input)>>

\* ------------------------------------------------------------- utilities

AudioFile == "audio/jd_reply.mp3"

\* make_tts: "" for an empty text or a failed synthesis
make_tts(text, tts) ==
    IF text = <<>> THEN ""
    ELSE IF tts = "ok" THEN AudioFile ELSE ""

\* ------------------------------------------------------------ core logic

None == 0

OllamaError == <<"Ollama error: ">>

\* the except branch leaving the answer empty
chat_answer_empty(backend) ==
    IF backend.ok THEN backend.text ELSE <<>>

\* try: ollama.chat(...)["message"]["content"]  except: f"Ollama error: {e}"
chat_answer(backend) ==
    IF backend.ok THEN backend.text ELSE OllamaError \o backend.text

\* the titles of the snapshot with a repeated title listed once
RECURSIVE titles_of_distinct(_)
titles_of_distinct(convs) ==
    IF convs = <<>> THEN <<>>
    ELSE LET front == SubSeq(convs, 1, Len(convs) - 1)
             last == convs[Len(convs)].title
         IN  IF \E i \in 1..Len(front) : front[i].title = last
             THEN titles_of_distinct(front)
             ELSE Append(titles_of_distinct(front), last)

\* the titles of the snapshot, in store order
titles_of(convs) == [i \in 1..Len(convs) |-> convs[i].title]

\* index of the first conversation whose id is conv_id, 0 if there is none
find_conv(convs, conv_id) ==
    IF \E i \in 1..Len(convs) : convs[i].id = conv_id
    THEN CHOOSE i \in 1..Len(convs) :
            /\ convs[i].id = conv_id
            /\ \A j \in 1..(i - 1) : convs[j].id # conv_id
    ELSE 0

new_conversation(new_id, ui_history) ==
    [id |-> new_id,
     title |-> extract_title_from_history(ui_history),
     turns |-> ui_history]

\* update_or_create without the fallback for an id that is not found
update_or_create_no_fallback(convs, ui_history, conv_id, new_id) ==
    IF conv_id = None
    THEN [conversations |-> Append(convs, new_conversation(new_id, ui_history)),
          conv_id |-> new_id]
    ELSE LET i == find_conv(convs, conv_id)
         IN  IF i # 0
             THEN [conversations |->
                       [convs EXCEPT
                           ![i].turns = ui_history,
                           ![i].title = extract_title_from_history(ui_history)],
                   conv_id |-> conv_id]
             ELSE [conversations |-> convs, conv_id |-> conv_id]

\* update_or_create extending the stored turns instead of replacing them
update_or_create_extend(convs, ui_history, conv_id, new_id) ==
    IF conv_id = None \/ find_conv(convs, conv_id) = 0
    THEN [conversations |-> Append(convs, new_conversation(new_id, ui_history)),
          conv_id |-> new_id]
    ELSE LET i == find_conv(convs, conv_id)
         IN  [conversations |->
                  [convs EXCEPT
                      ![i].turns = convs[i].turns \o ui_history,
                      ![i].title = extract_title_from_history(
                                       convs[i].turns \o ui_history)],
              conv_id |-> conv_id]

\* update_or_create without the search: a conversation is always appended,
\* under conv_id when one was passed
update_or_create_always_append(convs, ui_history, conv_id, new_id) ==
    LET id == IF conv_id = None THEN new_id ELSE conv_id
    IN  [conversations |-> Append(convs, new_conversation(id, ui_history)),
         conv_id |-> id]

\* update_or_create that does not recompute the title of an updated
\* conversation
update_or_create_stale_title(convs, ui_history, conv_id, new_id) ==
    IF conv_id = None \/ find_conv(convs, conv_id) = 0
    THEN [conversations |-> Append(convs, new_conversation(new_id, ui_history)),
          conv_id |-> new_id]
    ELSE LET i == find_conv(convs, conv_id)
         IN  [conversations |-> [convs EXCEPT ![i].turns = ui_history],
              conv_id |-> conv_id]

\* update_or_create moving an updated conversation to the end of the
\* snapshot
update_or_create_move_to_end(convs, ui_history, conv_id, new_id) ==
    IF conv_id = None \/ find_conv(convs, conv_id) = 0
    THEN [conversations |-> Append(convs, new_conversation(new_id, ui_history)),
          conv_id |-> new_id]
    ELSE LET i == find_conv(convs, conv_id)
         IN  [conversations |->
                  SubSeq(convs, 1, i - 1) \o SubSeq(convs, i + 1, Len(convs))
                      \o <<new_conversation(conv_id, ui_history)>>,
              conv_id |-> conv_id]

\* "Update or create conversation": the snapshot and the conversation id
\* after the new pair was added to ui_history; new_id is str(uuid.uuid4()).
update_or_create(convs, ui_history, conv_id, new_id) ==
    IF conv_id = None
    THEN [conversations |-> Append(convs, new_conversation(new_id, ui_history)),
          conv_id |-> new_id]
    ELSE LET i == find_conv(convs, conv_id)
         IN  IF i # 0
             THEN [conversations |->
                       [convs EXCEPT
                           ![i].turns = ui_history,
                           ![i].title = extract_title_from_history(ui_history)],
                   conv_id |-> conv_id]
             ELSE [conversations |->
                       Append(convs, new_conversation(new_id, ui_history)),
                   conv_id |-> new_id]

\* What a call returns; a call that raises returns nothing.
Returned(history, audio, conv_id, titles) ==
    [raised |-> FALSE, history |-> history, audio |-> audio,
     conv_id |-> conv_id, titles |-> titles]
Raised ==
    [raised |-> TRUE, history |-> <<>>, audio |-> "None",
     conv_id |-> None, titles |-> <<>>]

\* jd_reply_core: the state after the call and what it returns.  env is
\* what the collaborators do during the call: the backend's outcome, the
\* faults of the two file writes and of the synthesis, and the uuid drawn.
jd_reply_core(convs, file, flat, user_input, speak, ui_history, conv_id, env) ==
    LET text == strip(user_input) IN
    IF text = <<>>
    THEN [conversations |-> convs, conv_file |-> file, flat_file |-> flat,
          sent |-> <<>>,
          ret |-> Returned(ui_history, "None", conv_id, titles_of(convs))]
    ELSE LET messages == chat_messages(convs, ui_history, text)
             answer == chat_answer(env.backend)
             history == Append(ui_history, <<text, answer>>)
             upd == update_or_create(convs, history, conv_id, env.uuid)
             saved == save_conversations(file, upd.conversations, env.save)
             logged == log_flat_pair(flat, text, answer, env.log)
             audio == IF speak THEN make_tts(answer, env.tts) ELSE "None"
         IN  IF saved.raised
             THEN [conversations |-> upd.conversations, conv_file |-> saved.file,
                   flat_file |-> flat, sent |-> messages, ret |-> Raised]
             ELSE IF logged.raised
             THEN [conversations |-> upd.conversations, conv_file |-> saved.file,
                   flat_file |-> logged.flat, sent |-> messages, ret |-> Raised]
             ELSE [conversations |-> upd.conversations, conv_file |-> saved.file,
                   flat_file |-> logged.flat, sent |-> messages,
                   ret |-> Returned(history, audio, upd.conv_id,
                                    titles_of(upd.conversations))]

\* load_conversation_by_title returning the last match
load_conversation_by_title_last(convs, title) ==
    IF title = <<>> THEN <<<<>>, None>>
    ELSE IF \E i \in 1..Len(convs) : convs[i].title = title
         THEN LET i == CHOOSE i \in 1..Len(convs) :
                          /\ convs[i].title = title
                          /\ \A j \in (i + 1)..Len(convs) : convs[j].title # title
              IN  <<convs[i].turns, convs[i].id>>
         ELSE <<<<>>, None>>

\* load_conversation_by_title: <<turns, id>> of the first match
load_conversation_by_title(convs, title) ==
    IF title = <<>> THEN <<<<>>, None>>
    ELSE IF \E i \in 1..Len(convs) : convs[i].title = title
         THEN LET i == CHOOSE i \in 1..Len(convs) :
                          /\ convs[i].title = title
                          /\ \A j \in 1..(i - 1) : convs[j].title # title
              IN  <<convs[i].turns, convs[i].id>>
         ELSE <<<<>>, None>>

\* ------------------------------------------------------------------ state

VARIABLES
    conversations,  \* the module-level snapshot `conversations`
    conv_file,      \* the file at CONV_PATH
    flat_file,      \* the records of the file at FLAT_PATH
    sent,           \* the messages the last operation gave the backend, <<>> if none
    call,           \* the last operation and its arguments
    ret,            \* what the last operation returned
    started,        \* non-blank jd_reply_core calls started
    completed,      \* non-blank jd_reply_core calls that returned
    answered,       \* of those, the calls whose reply was not empty
    ui,             \* the components of one browser session: chat,
                    \* active_conv_id, topic_titles
    chain,          \* the session chain the browser session is in
    running         \* the jd_reply_core invocation each listener is in

vars == <<conversations, conv_file, flat_file, sent, call, ret,
          started, completed, answered, ui, chain, running>>

\* ----------------------------------------------------------------- inputs

\* the ids uuid.uuid4() hands out, and an id no conversation ever had
Ids == 1..MaxCalls
StaleId == MaxCalls + 1
\* the id of a conversation stored by an earlier run of the process
OldId == MaxCalls + 2

Hi == <<"h", "i">>
AB == <<"a", " ", " ", "b">>
ElevenWords ==
    <<"a", " ", "b", " ", "c", " ", "d", " ", "e", " ", "f", " ",
      "g", " ", "h", " ", "i", " ", "j", " ", "k">>
Ok == <<"o", "k">>
Down == <<"d", "o", "w", "n">>

BlankInputs == { <<>>, <<" ", "\t">> }
UserInputs == BlankInputs \cup { <<" ">> \o AB \o <<"\n">>, ElevenWords }

\* ollama.chat returns a text (possibly empty) or raises e, text = str(e)
Reply(text) == [ok |-> TRUE, text |-> text]
Failure(text) == [ok |-> FALSE, text |-> text]

\* What happens around one call: the speak flag, the backend's outcome and
\* the faults of the two file writes and of the synthesis.
Run(speak, backend, save, log, tts) ==
    [speak |-> speak, backend |-> backend, save |-> save, log |-> log, tts |-> tts]

Quiet == Run(FALSE, Reply(Ok), "ok", "ok", "ok")

Runs ==
    { Quiet,
      Run(TRUE, Reply(Ok), "ok", "ok", "ok"),
      Run(TRUE, Reply(Ok), "ok", "ok", "fails"),
      Run(TRUE, Reply(<<>>), "ok", "ok", "ok"),
      Run(FALSE, Failure(Down), "ok", "ok", "ok"),
      Run(FALSE, Reply(Ok), "open_fails", "ok", "ok"),
      Run(FALSE, Failure(Down), "write_fails", "ok", "ok"),
      Run(FALSE, Reply(Ok), "ok", "fails", "ok") }

\* session turns a caller may pass: none, a session whose first user text
\* is blank, and what the last operation returned
Histories == { <<>>, << <<<<" ">>, Ok>> >>, ret.history }

IdsOf(convs) == {convs[i].id : i \in 1..Len(convs)}

\* the conv_id a caller may pass
ConvIds == {None, StaleId} \cup IdsOf(conversations)

SelectTitles ==
    { <<>>, <<"z">> } \cup {conversations[i].title : i \in 1..Len(conversations)}

\* a conversation an earlier run of the process stored
OldConversation ==
    [id |-> OldId,
     title |-> extract_title_from_history(<< <<Hi, Ok>> >>),
     turns |-> << <<Hi, Ok>> >>]

\* the conversations file at process start: none, one that holds no list,
\* or the one an earlier run saved
InitialFiles ==
    { NoFile, JsonFile(JObject(<<>>)), JsonFile(json_dump(<<OldConversation>>)) }

NoArgs ==
    [user_input |-> <<>>, ui_history |-> <<>>, conv_id |-> None,
     run |-> Quiet, uuid |-> None, title |-> <<>>]

Call(op, args) == [op |-> op, args |-> args]

NoReturn == Returned(<<>>, "None", None, <<>>)

\* the components as build_ui creates them: gr.Chatbot(), gr.State(None),
\* gr.State([c["title"] for c in conversations])
Components(convs) ==
    [chat |-> <<>>, active_conv_id |-> None, topic_titles |-> titles_of(convs)]

\* no browser session, no session chain
NoSession == Components(<<>>)
NoChain == [open |-> FALSE, sends |-> 0, base |-> 0, id |-> None]

\* the two listeners of on_send: send_btn.click and txt.submit
Listeners == {"send_btn.click", "txt.submit"}

\* a jd_reply_core invocation: where it is and its local variables
Invocation(pc, user_input, ui_history, conv_id, messages, answer, buffer) ==
    [pc |-> pc, user_input |-> user_input, ui_history |-> ui_history,
     conv_id |-> conv_id, messages |-> messages, answer |-> answer,
     buffer |-> buffer]

\* a listener that runs no invocation
Idle == Invocation("idle", <<>>, <<>>, None, <<>>, <<>>, <<>>)
NoneRunning == [l \in Listeners |-> Idle]

\* ------------------------------------------------------------------- Init

\* conversations = load_conversations()
Init ==
    /\ conv_file \in InitialFiles
    /\ conversations = load_conversations(conv_file)
    /\ flat_file = <<>>
    /\ sent = <<>>
    /\ call = Call("start", NoArgs)
    /\ ret = NoReturn
    /\ started = 0
    /\ completed = 0
    /\ answered = 0
    /\ ui = NoSession
    /\ chain = NoChain
    /\ running = NoneRunning

\* ---------------------------------------------------------------- actions

\* whether update_or_create draws a uuid
creates(convs, conv_id) == conv_id = None \/ find_conv(convs, conv_id) = 0

\* uuid.uuid4() draws an id that is not in use
FreshIds(convs) == Ids \ IdsOf(convs)

\* One call jd_reply_core(user_input, speak, ui_history, conv_id) with a
\* blank user_input: nothing is drawn from the environment.
HandleBlank ==
    \E user_input \in BlankInputs, speak \in {TRUE},
       ui_history \in {ret.history}, conv_id \in {ret.conv_id} :
        LET run == [Quiet EXCEPT !.speak = speak]
            env == [backend |-> run.backend, save |-> run.save, log |-> run.log,
                    tts |-> run.tts, uuid |-> None]
            out == jd_reply_core(conversations, conv_file, flat_file,
                                 user_input, speak, ui_history, conv_id, env)
        IN  /\ conversations' = out.conversations
            /\ conv_file' = out.conv_file
            /\ flat_file' = out.flat_file
            /\ sent' = out.sent
            /\ ret' = out.ret
            /\ call' = Call("handle_message",
                   [NoArgs EXCEPT !.user_input = user_input,
                                  !.ui_history = ui_history, !.conv_id = conv_id,
                                  !.run = run])
            /\ UNCHANGED <<started, completed, answered, ui, chain, running>>

\* One call jd_reply_core(user_input, speak, ui_history, conv_id) with a
\* user_input that is not blank.
HandleMessage ==
    /\ started < MaxCalls
    /\ \E user_input \in UserInputs \ BlankInputs, ui_history \in Histories,
          conv_id \in ConvIds, run \in Runs :
       \E uuid \in IF creates(conversations, conv_id)
                   THEN FreshIds(conversations) ELSE {None} :
        LET env == [backend |-> run.backend, save |-> run.save, log |-> run.log,
                    tts |-> run.tts, uuid |-> uuid]
            out == jd_reply_core(conversations, conv_file, flat_file,
                                 user_input, run.speak, ui_history, conv_id, env)
        IN  /\ conversations' = out.conversations
            /\ conv_file' = out.conv_file
            /\ flat_file' = out.flat_file
            /\ sent' = out.sent
            /\ ret' = out.ret
            /\ call' = Call("handle_message",
                   [NoArgs EXCEPT !.user_input = user_input,
                                  !.ui_history = ui_history, !.conv_id = conv_id,
                                  !.run = run, !.uuid = uuid])
            /\ started' = started + 1
            /\ completed' = IF out.ret.raised THEN completed ELSE completed + 1
            /\ answered' =
                   IF out.ret.raised \/ chat_answer(run.backend) = <<>>
                   THEN answered ELSE answered + 1
            /\ UNCHANGED <<ui, chain, running>>

\* One call load_conversation_by_title(title).
SelectTopic ==
    \E title \in SelectTitles :
        LET found == load_conversation_by_title(conversations, title)
        IN  /\ ret' = Returned(found[1], "None", found[2], <<>>)
            /\ call' = Call("select_topic", [NoArgs EXCEPT !.title = title])
            /\ sent' = <<>>
            /\ UNCHANGED <<conversations, conv_file, flat_file,
                           started, completed, answered, ui, chain, running>>

\* The process ends and starts again: conversations = load_conversations().
Restart ==
    /\ conversations' = load_conversations(conv_file)
    /\ call' = Call("start", NoArgs)
    /\ ret' = NoReturn
    /\ sent' = <<>>
    /\ UNCHANGED <<conv_file, flat_file, started, completed, answered,
                   ui, chain, running>>

Next == HandleBlank \/ HandleMessage \/ SelectTopic \/ Restart

Spec == Init /\ [][Next]_vars

\* ------------------------------------------------- vocabulary of the claims

\* a text that is empty or whitespace-only
IsBlank(s) == \A k \in 1..Len(s) : s[k] \in Whitespace

\* a text without its leading and trailing whitespace
Trimmed(s) ==
    IF IsBlank(s) THEN <<>>
    ELSE LET lo == CHOOSE i \in 1..Len(s) :
                 s[i] \notin Whitespace /\ \A k \in 1..(i - 1) : s[k] \in Whitespace
             hi == CHOOSE j \in 1..Len(s) :
                 s[j] \notin Whitespace /\ \A k \in (j + 1)..Len(s) : s[k] \in Whitespace
         IN  SubSeq(s, lo, hi)

\* the step is a jd_reply_core call with a user_input that is not blank
SendStep == call'.op = "handle_message" /\ ~IsBlank(call'.args.user_input)

\* the state is the one a jd_reply_core call with a non-blank input left
AfterSend == call.op = "handle_message" /\ ~IsBlank(call.args.user_input)

\* the pair that call adds: the trimmed user text and the reply
NewPair(args) == <<Trimmed(args.user_input), chat_answer(args.run.backend)>>

\* ---------------------------------------------------------------- claims

\* C1: a non-blank call whose conv_id is None or is no id of the snapshot
\* appends exactly one conversation at the end of the snapshot: its id is
\* new, its turns are ui_history followed by the new pair, its title is the
\* title derived from those turns; the conversations that existed are
\* unchanged and a call that returns returns the new id.
CreateAppendsOneConversation ==
    [][ (SendStep /\ call'.args.conv_id \notin IdsOf(conversations))
        => /\ Len(conversations') = Len(conversations) + 1
           /\ SubSeq(conversations', 1, Len(conversations)) = conversations
           /\ LET c == conversations'[Len(conversations')]
              IN  /\ c.id \notin IdsOf(conversations)
                  /\ c.turns = Append(call'.args.ui_history, NewPair(call'.args))
                  /\ c.title = extract_title_from_history(c.turns)
                  /\ ~ret'.raised => ret'.conv_id = c.id ]_vars

\* C1 witness: a call with an id the snapshot did not hold, and some session
\* turns, has returned the id of a second conversation.
CreateWitness ==
    /\ AfterSend
    /\ call.args.conv_id = StaleId
    /\ call.args.ui_history # <<>>
    /\ ~ret.raised
    /\ Len(conversations) = 2
    /\ ret.conv_id = conversations[2].id
    /\ ret.conv_id # StaleId

\* C2: a non-blank call whose conv_id is the id of conversation X replaces
\* X's turns by ui_history followed by the new pair, recomputes X's title
\* from the first turn, keeps X's id and position and every other
\* conversation, and a call that returns returns conv_id.
UpdateReplacesTurns ==
    [][ SendStep =>
        \A i \in 1..Len(conversations) :
            conversations[i].id = call'.args.conv_id
            => /\ Len(conversations') = Len(conversations)
               /\ \A j \in 1..Len(conversations) :
                      j # i => conversations'[j] = conversations[j]
               /\ conversations'[i].id = call'.args.conv_id
               /\ conversations'[i].turns =
                      Append(call'.args.ui_history, NewPair(call'.args))
               /\ Len(conversations'[i].turns) = Len(call'.args.ui_history) + 1
               /\ conversations'[i].title =
                      extract_title_from_history(<<conversations'[i].turns[1]>>)
               /\ ~ret'.raised => ret'.conv_id = call'.args.conv_id ]_vars

\* C2 witness: the second of two conversations was given a session of one
\* new pair, the first conversation standing beside it.
UpdateWitness ==
    /\ AfterSend
    /\ ~ret.raised
    /\ call.args.uuid = None
    /\ call.args.ui_history = <<>>
    /\ Len(conversations) = 2
    /\ call.args.conv_id = conversations[2].id
    /\ ret.conv_id = conversations[2].id
    /\ Len(conversations[2].turns) = 1
    /\ conversations[1] = OldConversation

\* C3: a call with a blank user_input changes neither the snapshot nor the
\* two files, calls no backend, and returns ui_history and conv_id as they
\* were passed, no audio, and the titles of the snapshot.
BlankIsNoOp ==
    [][ (call'.op = "handle_message" /\ IsBlank(call'.args.user_input))
        => /\ conversations' = conversations
           /\ conv_file' = conv_file
           /\ flat_file' = flat_file
           /\ sent' = <<>>
           /\ ~ret'.raised
           /\ ret'.history = call'.args.ui_history
           /\ ret'.conv_id = call'.args.conv_id
           /\ ret'.audio = "None"
           /\ ret'.titles = [i \in 1..Len(conversations) |-> conversations[i].title]
      ]_vars

\* C3 witness: a whitespace-only input with the speak flag set, session
\* turns and an id, on a snapshot that holds a conversation.
BlankWitness ==
    /\ call.op = "handle_message"
    /\ call.args.user_input = <<" ", "\t">>
    /\ call.args.run.speak
    /\ call.args.ui_history # <<>>
    /\ call.args.conv_id # None
    /\ ret.titles # <<>>
    /\ flat_file # <<>>

\* the reply carries the error marker
HasErrorMarker(reply) ==
    /\ Len(reply) >= Len(OllamaError)
    /\ SubSeq(reply, 1, Len(OllamaError)) = OllamaError

\* C4: when the backend call fails (and the two file writes do not), the
\* call returns; the reply is an error string with the marker; the pair
\* (user text, error string) ends the returned history, ends the turns of
\* the conversation of the returned id, is in the conversations file and is
\* the one record added to the flat log.
BackendFailureIsData ==
    [][ (SendStep /\ ~call'.args.run.backend.ok
            /\ call'.args.run.save = "ok" /\ call'.args.run.log = "ok")
        => /\ ~ret'.raised
           /\ ret'.history # <<>>
           /\ LET pair == ret'.history[Len(ret'.history)]
                  stored == {i \in 1..Len(conversations') :
                                conversations'[i].id = ret'.conv_id}
                  disk == load_conversations(conv_file')
              IN  /\ pair[1] = Trimmed(call'.args.user_input)
                  /\ HasErrorMarker(pair[2])
                  /\ pair[2] = OllamaError \o call'.args.run.backend.text
                  /\ ret'.history = Append(call'.args.ui_history, pair)
                  /\ stored # {}
                  /\ \A i \in stored :
                        /\ conversations'[i].turns = ret'.history
                        /\ Len(disk) >= i
                        /\ disk[i] = conversations'[i]
                  /\ flat_file' = Append(flat_file, [instruction |-> pair[1],
                                                     output |-> pair[2]])
      ]_vars

\* C4 witness: a call whose backend failed has returned.
BackendFailureWitness ==
    /\ AfterSend
    /\ ~call.args.run.backend.ok
    /\ ~ret.raised
    /\ flat_file # <<>>
    /\ HasErrorMarker(flat_file[Len(flat_file)].output)

\* C5: whenever no call is in progress, loading the conversations file
\* gives the snapshot.
StoreMirrorsSnapshot ==
    load_conversations(conv_file) = conversations

\* C6 as stated: every call with a non-blank input that returns has added
\* one record, so the flat log holds as many records as such calls returned.
OneFlatRecordPerCompletedCall ==
    Len(flat_file) = completed

\* C6: a call with a non-blank input that returns adds one record
\* {instruction: trimmed text, output: reply} for the new pair alone when the
\* reply is not empty, and none when the reply is empty; the earlier records
\* stay; the flat log holds as many records as calls with a non-empty reply
\* returned.
OneFlatRecordPerAnsweredCall ==
    /\ [](Len(flat_file) = answered)
    /\ [][ (SendStep /\ ~ret'.raised)
           => LET pair == NewPair(call'.args)
              IN  flat_file' =
                      IF pair[2] = <<>> THEN flat_file
                      ELSE Append(flat_file, [instruction |-> pair[1],
                                              output |-> pair[2]]) ]_vars

\* C6 witness: two calls returned, one with an empty reply, after a session
\* of several turns; one record was written.
FlatRecordWitness ==
    /\ AfterSend
    /\ ~ret.raised
    /\ completed = 2
    /\ answered = 1
    /\ Len(ret.history) >= 2
    /\ Len(flat_file) = 1

\* C7: a call whose append to the flat log fails still returns.
FlatLogFaultIsNotFatal ==
    (AfterSend /\ call.args.run.save = "ok" /\ call.args.run.log = "fails")
        => /\ ~ret.raised
           /\ ret.history = Append(call.args.ui_history, NewPair(call.args))
           /\ ret.titles = titles_of(conversations)

\* C8: no two conversations of the snapshot have the same id.
IdsAreUnique ==
    \A i, j \in 1..Len(conversations) :
        i # j => conversations[i].id # conversations[j].id

\* C8 witness: a second conversation was created by a call that passed an
\* id the snapshot did not hold.
IdsWitness ==
    /\ AfterSend
    /\ call.args.conv_id = StaleId
    /\ call.args.uuid # None
    /\ Len(conversations) = 2

\* C9: the title of every conversation is the title derived from its stored
\* turns: the placeholder when the first stored user text is blank, and
\* never the empty text.
TitleIsDerived ==
    \A i \in 1..Len(conversations) :
        LET c == conversations[i]
        IN  /\ c.title = extract_title_from_history(c.turns)
            /\ c.title # <<>>
            /\ c.turns # <<>>
            /\ IsBlank(c.turns[1][1]) => c.title = NewChat

\* C9 witness: a conversation created under another title was updated with
\* a session whose first user text is blank, and has the placeholder title.
TitleWitness ==
    /\ AfterSend
    /\ call.args.uuid = None
    /\ started = 2
    /\ Len(conversations) = 1
    /\ call.args.conv_id = conversations[1].id
    /\ IsBlank(conversations[1].turns[1][1])
    /\ conversations[1].title = NewChat

\* C10: load_conversation_by_title returns the turns and id of the first
\* conversation, in store order, that has the title; empty turns and no id
\* for an empty title or a title no conversation has; it changes neither
\* the snapshot nor the files.
SelectIsFirstMatch ==
    [][ call'.op = "select_topic"
        => LET title == call'.args.title
               matches == {i \in 1..Len(conversations) :
                              conversations[i].title = title}
           IN  /\ UNCHANGED <<conversations, conv_file, flat_file>>
               /\ ~ret'.raised
               /\ (title = <<>> \/ matches = {})
                      => ret'.history = <<>> /\ ret'.conv_id = None
               /\ (title # <<>> /\ matches # {})
                      => \E i \in matches :
                            /\ \A j \in matches : i <= j
                            /\ ret'.history = conversations[i].turns
                            /\ ret'.conv_id = conversations[i].id ]_vars

\* C10 witness: two conversations have the title and different turns; the
\* first one's turns and id were returned.
SelectWitness ==
    /\ call.op = "select_topic"
    /\ Len(conversations) = 2
    /\ conversations[1].title = call.args.title
    /\ conversations[2].title = call.args.title
    /\ conversations[1].turns # conversations[2].turns
    /\ ret.history = conversations[1].turns
    /\ ret.conv_id = conversations[1].id

\* ------------------------------------------------------------ MemorySpec
\* build_messages_from_memory over snapshots that hold up to 2 * MaxTurns
\* pairs.

\* turn k of conversation c
Turn(c, k) ==
    << <<"q", ToString(c), ".", ToString(k)>>,
       <<"r", ToString(c), ".", ToString(k)>> >>

\* a conversation of n turns as jd_reply_core stores it
StoredConversation(c, n) ==
    LET turns == [k \in 1..n |-> Turn(c, k)]
    IN  [id |-> c, title |-> extract_title_from_history(turns), turns |-> turns]

\* the snapshots: none, or two conversations of 0..MaxTurns turns each
MemorySnapshots ==
    { <<>> } \cup
    { <<StoredConversation(1, n1), StoredConversation(2, n2)>> :
          n1 \in 0..MaxTurns, n2 \in 0..MaxTurns }

\* conversations = load_conversations() of a file an earlier run saved
MemoryInit ==
    /\ conv_file \in {JsonFile(json_dump(convs)) : convs \in MemorySnapshots}
    /\ conversations = load_conversations(conv_file)
    /\ flat_file = <<>>
    /\ sent = <<>>
    /\ call = Call("start", NoArgs)
    /\ ret = NoReturn
    /\ started = 0
    /\ completed = 0
    /\ answered = 0
    /\ ui = NoSession
    /\ chain = NoChain
    /\ running = NoneRunning

\* One call build_messages_from_memory().
BuildContext ==
    /\ call.op = "start"
    /\ sent' = build_messages_from_memory(conversations)
    /\ call' = Call("build_context", NoArgs)
    /\ UNCHANGED <<conversations, conv_file, flat_file, ret,
                   started, completed, answered, ui, chain, running>>

MemoryNext == BuildContext

MemorySpec == MemoryInit /\ [][MemoryNext]_vars

\* the turns of every conversation, one after another in store order
RECURSIVE StoredPairs(_)
StoredPairs(convs) ==
    IF convs = <<>> THEN <<>>
    ELSE StoredPairs(SubSeq(convs, 1, Len(convs) - 1)) \o convs[Len(convs)].turns

\* the last MemoryWindow of them, all of them if there are fewer
RecentPairs(convs) ==
    LET stored == StoredPairs(convs)
        n == Len(stored)
    IN  SubSeq(stored, IF n > MemoryWindow THEN n - MemoryWindow + 1 ELSE 1, n)

\* one pair as one User/Assistant entry
Entry(pair) ==
    <<"U", "s", "e", "r", ":", " ">> \o pair[1]
        \o <<"\n", "A", "s", "s", "i", "s", "t", "a", "n", "t", ":", " ">>
        \o pair[2]

\* the entries of a non-empty sequence of pairs, a blank line between two
RECURSIVE Entries(_)
Entries(pairs) ==
    IF Len(pairs) = 1 THEN Entry(pairs[1])
    ELSE Entry(pairs[1]) \o <<"\n", "\n">> \o Entries(Tail(pairs))

\* C11: for every snapshot, build_messages_from_memory returns the system
\* message followed, exactly when the snapshot holds at least one pair, by
\* one summary message whose block is the last 50 pairs (all if fewer) of
\* all conversations' turns concatenated in store order, in that order,
\* each pair one whole User/Assistant entry.
SummaryIsLastFiftyPairs ==
    call.op = "build_context" =>
        LET recent == RecentPairs(conversations)
        IN  /\ sent[1] = Message("system", SystemPrompt)
            /\ Len(sent) = (IF StoredPairs(conversations) = <<>> THEN 1 ELSE 2)
            /\ Len(sent) = 2 =>
                   sent[2] = Message("system", SummaryLabel \o Entries(recent))

\* C11 witness: a snapshot of more than 50 pairs whose window takes the
\* end of the first conversation and all of the second.
SummaryWitness ==
    /\ call.op = "build_context"
    /\ Len(conversations) = 2
    /\ Len(StoredPairs(conversations)) > MemoryWindow
    /\ Len(conversations[2].turns) \in 1..(MemoryWindow - 1)
    /\ Len(sent) = 2

\* C12: the messages a non-blank call hands to the backend are, in order:
\* the system message; the memory summary exactly when the snapshot before
\* the call holds a pair; for each session turn one user and one assistant
\* message; the trimmed user text last.  Their number is
\* 1 + (0 or 1) + 2 * |ui_history| + 1 and nothing else of the call (the
\* conv_id, the speak flag, the backend's reply, the faults) enters them.
ContextOrder ==
    [][ SendStep =>
        LET turns == call'.args.ui_history
            n == Len(turns)
            m == IF StoredPairs(conversations) = <<>> THEN 0 ELSE 1
        IN  /\ Len(sent') = 1 + m + 2 * n + 1
            /\ sent'[1] = Message("system", SystemPrompt)
            /\ m = 1 =>
                   sent'[2] = Message("system",
                       SummaryLabel \o Entries(RecentPairs(conversations)))
            /\ \A k \in 1..n :
                   /\ sent'[1 + m + 2 * k - 1] = Message("user", turns[k][1])
                   /\ sent'[1 + m + 2 * k] = Message("assistant", turns[k][2])
            /\ sent'[Len(sent')] =
                   Message("user", Trimmed(call'.args.user_input)) ]_vars

\* C12 witness: a call with one session turn and an input with whitespace
\* around it sent five messages, the summary among them.
ContextOrderWitness ==
    /\ AfterSend
    /\ Len(call.args.ui_history) = 1
    /\ Trimmed(call.args.user_input) # call.args.user_input
    /\ Len(sent) = 5
    /\ sent[2].role = "system"
    /\ sent[3].role = "user"

\* the ids of the snapshot, in store order
IdSeq(convs) == [i \in 1..Len(convs) |-> convs[i].id]

IsPrefix(a, b) == Len(a) <= Len(b) /\ SubSeq(b, 1, Len(a)) = a

\* C13: across every jd_reply_core and load_conversation_by_title call the
\* ids of the snapshot before the call are a prefix of the ids after it: no
\* conversation is deleted or moved, a new one is added at the end.  (The
\* prefix order is transitive, so the ids at any time are a prefix of the
\* ids after any later sequence of such calls.)
IdsKeepTheirPlace ==
    [][ call'.op \in {"handle_message", "select_topic"}
        => IsPrefix(IdSeq(conversations), IdSeq(conversations')) ]_vars

\* C13 witness: a call has updated the first of two conversations, the
\* second one created after it.
IdsKeepTheirPlaceWitness ==
    /\ AfterSend
    /\ Len(conversations) = 2
    /\ call.args.conv_id = conversations[1].id
    /\ conversations[1].id = OldId
    /\ conversations[2].id \in Ids
    /\ Len(conversations[1].turns) > 1

\* C14: the titles a jd_reply_core call returns, whether its input is blank
\* or not, are the titles of the conversations of the snapshot as the call
\* leaves it: one per conversation, in store order, equal titles repeated,
\* the title this call created or recomputed among them.
ReturnedTitlesAreSnapshotTitles ==
    [][ (call'.op = "handle_message" /\ ~ret'.raised)
        => /\ Len(ret'.titles) = Len(conversations')
           /\ \A i \in 1..Len(conversations') :
                  ret'.titles[i] = conversations'[i].title ]_vars

\* C14 witness: a call has created a second conversation with the title of
\* the first and returned both titles.
ReturnedTitlesWitness ==
    /\ AfterSend
    /\ ~ret.raised
    /\ call.args.uuid # None
    /\ Len(conversations) = 2
    /\ Len(ret.titles) = 2
    /\ ret.titles[1] = ret.titles[2]
    /\ ret.titles[2] # NewChat

\* ------------------------------------------------------------- TitleSpec
\* extract_title_from_history over histories whose first user text holds
\* up to MaxWords words.

Word(k) == <<"w", ToString(k)>>

\* the whitespace between two words, and around the text
Gaps == { <<" ">>, <<" ", " ">>, <<"\t", "\n">> }
Pads == { <<>>, <<" ", "\n">> }

\* the words 1..n with gap between two of them
RECURSIVE Words(_, _)
Words(n, gap) ==
    IF n = 0 THEN <<>>
    ELSE IF n = 1 THEN Word(1)
    ELSE Words(n - 1, gap) \o gap \o Word(n)

FirstTexts ==
    { pad \o Words(n, gap) \o pad : n \in 0..MaxWords, gap \in Gaps, pad \in Pads }

\* the histories: none, one turn, and a turn followed by a second one
TitleHistories ==
    { <<>> } \cup
    { << <<text, reply>> >> : text \in FirstTexts, reply \in { <<>>, Ok } } \cup
    { << <<text, reply>>, <<ElevenWords, Hi>> >> :
          text \in FirstTexts, reply \in { <<>>, Ok } }

TitleInit ==
    /\ call \in {Call("start", [NoArgs EXCEPT !.ui_history = history]) :
                     history \in TitleHistories}
    /\ conv_file = NoFile
    /\ conversations = load_conversations(conv_file)
    /\ flat_file = <<>>
    /\ sent = <<>>
    /\ ret = NoReturn
    /\ started = 0
    /\ completed = 0
    /\ answered = 0
    /\ ui = NoSession
    /\ chain = NoChain
    /\ running = NoneRunning

\* One call extract_title_from_history(history); the title is recorded as
\* the one title of ret.
DeriveTitle ==
    /\ call.op = "start"
    /\ call' = Call("derive_title", call.args)
    /\ ret' = Returned(call.args.ui_history, "None", None,
                       <<extract_title_from_history(call.args.ui_history)>>)
    /\ UNCHANGED <<conversations, conv_file, flat_file, sent,
                   started, completed, answered, ui, chain, running>>

TitleNext == DeriveTitle

TitleSpec == TitleInit /\ [][TitleNext]_vars

\* the positions of s where a token (a maximal run of characters that are
\* not whitespace) starts
TokenStarts(s) ==
    { i \in 1..Len(s) :
          s[i] \notin Whitespace /\ (i = 1 \/ s[i - 1] \in Whitespace) }

TokenCount(s) == Cardinality(TokenStarts(s))

\* the n-th token of s
Token(s, n) ==
    LET lo == CHOOSE i \in TokenStarts(s) :
                  Cardinality({j \in TokenStarts(s) : j < i}) = n - 1
        hi == CHOOSE j \in lo..Len(s) :
                  /\ \A k \in lo..j : s[k] \notin Whitespace
                  /\ j = Len(s) \/ s[j + 1] \in Whitespace
    IN  SubSeq(s, lo, hi)

\* the first n tokens of s, n >= 1, one space between two of them
RECURSIVE SpacedTokens(_, _)
SpacedTokens(s, n) ==
    IF n = 1 THEN Token(s, 1)
    ELSE SpacedTokens(s, n - 1) \o <<" ">> \o Token(s, n)

\* C15: the title of a turn sequence is "New chat" when the sequence is
\* empty or the first turn's user text is empty or whitespace-only;
\* otherwise it is the first 10 whitespace-separated tokens of that text
\* joined by single spaces, followed by the ellipsis exactly when the text
\* has more than 10 tokens.  Only the first turn's user text enters it.
TitleIsFirstTenTokens ==
    call.op = "derive_title" =>
        LET history == call.args.ui_history
        IN  /\ Len(ret.titles) = 1
            /\ IF history = <<>> THEN ret.titles[1] = NewChat
               ELSE IF IsBlank(history[1][1]) THEN ret.titles[1] = NewChat
               ELSE LET text == history[1][1]
                        count == TokenCount(text)
                    IN  ret.titles[1] =
                            IF count > TitleWords
                            THEN SpacedTokens(text, TitleWords) \o Ellipsis
                            ELSE SpacedTokens(text, count)

\* C15 witness: the title of a two-turn history whose first user text has
\* more than 10 words, wide gaps and whitespace around it.
TitleTokensWitness ==
    /\ call.op = "derive_title"
    /\ Len(call.args.ui_history) = 2
    /\ TokenCount(call.args.ui_history[1][1]) > TitleWords
    /\ Head(call.args.ui_history[1][1]) \in Whitespace
    /\ \E k \in 1..(Len(call.args.ui_history[1][1]) - 1) :
           /\ call.args.ui_history[1][1][k] = "\t"
           /\ call.args.ui_history[1][1][k + 1] = "\n"
    /\ ret.titles[1][Len(ret.titles[1])] = "U+2026"

\* ---------------------------------------------------------------- UiSpec
\* One browser session: the events on_send, on_new_chat and
\* on_select_topic, each handler run to its end, the components holding
\* what the handlers returned.

\* the ids uuid.uuid4() hands out in UiSpec and the id of the conversation
\* an earlier run stored
SessionIds == 1..MaxSends
StoredId == MaxSends + 1

\* the conversations file at process start: none, or one conversation of
\* fewer or of more than ShownTurns turns
SessionFiles ==
    { NoFile,
      JsonFile(json_dump(<<StoredConversation(StoredId, 2)>>)),
      JsonFile(json_dump(<<StoredConversation(StoredId, ShownTurns + 1)>>)) }

\* the texts of the textbox
Messages == { <<>>, <<" ">> \o AB \o <<"\n">> }

\* what happens around an on_send call
SessionRuns ==
    { Run(TRUE, Reply(Ok), "ok", "ok", "ok"),
      Run(TRUE, Failure(Down), "ok", "ok", "ok"),
      Run(FALSE, Reply(Ok), "open_fails", "ok", "ok") }

\* a session chain: whether the session started with no turns and no
\* active id and every call since was given what the call before it
\* returned, the non-blank messages sent in it, the conversations the
\* snapshot held at its start, the id its first call returned
NewChain(convs) == [open |-> TRUE, sends |-> 0, base |-> Len(convs), id |-> None]

\* the chain after an on_send call: a call that raises returns nothing to
\* give to the next call
ChainAfterSend(ch, message, r) ==
    IF ~ch.open THEN ch
    ELSE IF r.raised THEN [ch EXCEPT !.open = FALSE]
    ELSE IF IsBlank(message) THEN ch
    ELSE [ch EXCEPT !.sends = ch.sends + 1,
                    !.id = IF ch.sends = 0 THEN r.conv_id ELSE ch.id]

UiInit ==
    /\ conv_file \in SessionFiles
    /\ conversations = load_conversations(conv_file)
    /\ flat_file = <<>>
    /\ sent = <<>>
    /\ call = Call("start", NoArgs)
    /\ ret = NoReturn
    /\ started = 0
    /\ completed = 0
    /\ answered = 0
    /\ ui = Components(conversations)
    /\ chain = NewChain(conversations)
    /\ running = NoneRunning

\* the components after on_send returned r with the active id left as it
\* was
SendOutputsKeepId(components, r) ==
    [chat |-> r.history, active_conv_id |-> components.active_conv_id,
     topic_titles |-> r.titles]

\* outputs=[chat, txt, audio_out, active_conv_id, topic_titles,
\* topic_radio]: the components after on_send returned r; a handler that
\* raises updates no component
SendOutputs(components, r) ==
    [chat |-> r.history, active_conv_id |-> r.conv_id, topic_titles |-> r.titles]

\* One event send_btn.click or txt.submit: on_send(message, history,
\* speak, conv_id, titles) with the values of the components.
OnSend ==
    \E message \in Messages, run \in SessionRuns :
       \E uuid \in IF strip(message) # <<>>
                        /\ creates(conversations, ui.active_conv_id)
                    THEN SessionIds \ IdsOf(conversations) ELSE {None} :
        LET env == [backend |-> run.backend, save |-> run.save, log |-> run.log,
                    tts |-> run.tts, uuid |-> uuid]
            out == jd_reply_core(conversations, conv_file, flat_file,
                                 message, run.speak, ui.chat,
                                 ui.active_conv_id, env)
            blank == strip(message) = <<>>
        IN  /\ blank \/ started < MaxSends
            /\ blank => run = Run(TRUE, Reply(Ok), "ok", "ok", "ok")
            /\ conversations' = out.conversations
            /\ conv_file' = out.conv_file
            /\ flat_file' = out.flat_file
            /\ sent' = out.sent
            /\ ret' = out.ret
            /\ call' = Call("on_send",
                   [NoArgs EXCEPT !.user_input = message,
                                  !.ui_history = ui.chat,
                                  !.conv_id = ui.active_conv_id,
                                  !.run = run, !.uuid = uuid])
            /\ ui' = IF out.ret.raised THEN ui ELSE SendOutputs(ui, out.ret)
            /\ chain' = ChainAfterSend(chain, message, out.ret)
            /\ started' = IF blank THEN started ELSE started + 1
            /\ completed' =
                   IF blank \/ out.ret.raised THEN completed ELSE completed + 1
            /\ answered' =
                   IF blank \/ out.ret.raised \/ chat_answer(run.backend) = <<>>
                   THEN answered ELSE answered + 1
            /\ UNCHANGED running

\* One event new_chat_btn.click: on_new_chat(conv_id, titles).
OnNewChat ==
    /\ ui' = [chat |-> <<>>, active_conv_id |-> None,
              topic_titles |-> ui.topic_titles]
    /\ chain' = NewChain(conversations)
    /\ call' = Call("on_new_chat", NoArgs)
    /\ ret' = NoReturn
    /\ sent' = <<>>
    /\ UNCHANGED <<conversations, conv_file, flat_file,
                   started, completed, answered, running>>

\* on_select_topic: <<last_five, cid>>
on_select_topic(convs, topic_title) ==
    IF topic_title = <<>> THEN <<<<>>, None>>
    ELSE LET found == load_conversation_by_title(convs, topic_title)
         IN  <<LastN(found[1], ShownTurns), found[2]>>

\* One event topic_radio.input: on_select_topic(topic_title) with one of
\* the choices of the radio, the titles last given to it.
OnSelectTopic ==
    \E k \in 1..Len(ui.topic_titles) :
        LET shown == on_select_topic(conversations, ui.topic_titles[k])
        IN  /\ ui' = [chat |-> shown[1], active_conv_id |-> shown[2],
                      topic_titles |-> ui.topic_titles]
            /\ chain' = IF shown[1] = <<>> /\ shown[2] = None
                        THEN NewChain(conversations)
                        ELSE [chain EXCEPT !.open = FALSE]
            /\ call' = Call("on_select_topic",
                            [NoArgs EXCEPT !.title = ui.topic_titles[k]])
            /\ ret' = Returned(shown[1], "None", shown[2], <<>>)
            /\ sent' = <<>>
            /\ UNCHANGED <<conversations, conv_file, flat_file,
                           started, completed, answered, running>>

UiNext == OnSend \/ OnNewChat \/ OnSelectTopic

UiSpec == UiInit /\ [][UiNext]_vars

\* the step is an on_send event with a text that is not blank
MessageStep == call'.op = "on_send" /\ ~IsBlank(call'.args.user_input)

\* C16: in a session chain (the session started with no turns and no
\* active id, every on_send call was given the history and the id the call
\* before it returned) that has sent n >= 1 non-blank messages, the chain
\* has added exactly one conversation to the snapshot, the id last
\* returned is the id the first call returned, and that conversation's
\* stored turns are the returned session turns, n of them.
OneConversationPerChain ==
    (chain.open /\ chain.sends >= 1) =>
        /\ Len(conversations) = chain.base + 1
        /\ ~ret.raised
        /\ ui.active_conv_id = chain.id
        /\ chain.id # None
        /\ Cardinality({i \in 1..Len(conversations) :
                            conversations[i].id = chain.id}) = 1
        /\ \A i \in 1..Len(conversations) :
               conversations[i].id = chain.id
               => /\ i = Len(conversations)
                  /\ conversations[i].turns = ui.chat
                  /\ Len(conversations[i].turns) = chain.sends

\* C16 witness: a chain of three messages beside a conversation stored
\* before it.
ChainWitness ==
    /\ chain.open
    /\ chain.sends = 3
    /\ chain.base = 1
    /\ Len(ui.chat) = 3
    /\ call.op = "on_send"

\* C17: no UI event loses stored turns; in particular, when a topic was
\* selected and one message is then sent, the conversation of that topic
\* holds the turns it held before followed by the one new pair, and the
\* title it had.  (Stated for the calls that return.)
SelectThenSendKeepsTurns ==
    [][ (call.op = "on_select_topic" /\ MessageStep /\ ~ret'.raised)
        => \A i \in 1..Len(conversations) :
               conversations[i].id = ui.active_conv_id
               => /\ conversations'[i].turns =
                         Append(conversations[i].turns, NewPair(call'.args))
                  /\ conversations'[i].title = conversations[i].title ]_vars

\* C18: the session turns a non-blank on_send call puts into the context
\* are not in the snapshot the memory summary is built from: no pair is in
\* the context twice.  (Stated for the calls that return.)
SessionTailIsNotStored ==
    [][ (MessageStep /\ ~ret'.raised)
        => \A k \in 1..Len(ui.chat) :
               \A j \in 1..Len(RecentPairs(conversations)) :
                   RecentPairs(conversations)[j] # ui.chat[k] ]_vars

\* C19: when save_conversations raises during a non-blank call, the call
\* raises, the snapshot is the one before the call, the snapshot equals
\* what the conversations file holds, and the flat log has no new record.
SaveFaultLeavesStateUnchanged ==
    [][ (SendStep /\ call'.args.run.save # "ok")
        => /\ ret'.raised
           /\ conversations' = conversations
           /\ conversations' = load_conversations(conv_file')
           /\ flat_file' = flat_file ]_vars

\* -------------------------------------------------------- ConcurrentSpec
\* The two listeners of on_send, each running at most one
\* jd_reply_core invocation at a time in its own thread, no lock between
\* them: an invocation is the steps Enter, Context, Chat, Update, OpenFile,
\* Dump, CloseFile, Log, Return, interleaved with the other listener's.
\* Every event comes from a session with no turns and no active id.

\* the length of the text json.dump writes for convs
RECURSIVE TextSize(_)
TextSize(convs) ==
    IF convs = <<>> THEN 2
    ELSE LET c == convs[Len(convs)]
             turn_sizes == [k \in 1..Len(c.turns) |->
                               8 + Len(c.turns[k][1]) + Len(c.turns[k][2])]
             RECURSIVE Sum(_)
             Sum(q) == IF q = <<>> THEN 0 ELSE Head(q) + Sum(Tail(q))
         IN  TextSize(SubSeq(convs, 1, Len(convs) - 1))
                 + 80 + Len(c.title) + Sum(turn_sizes)

\* a file holding a text that is not JSON, as long as the text of convs
Garbage(convs) == [state |-> "corrupt", doc |-> json_dump(convs)]

\* the file after a writer that opened it earlier writes the text of convs
\* from position 0: the text, followed by what the file held beyond it
written_over(file, convs) ==
    IF file.state = "absent" THEN JsonFile(json_dump(convs))
    ELSE IF TextSize(convs) >= TextSize(json_load(file.doc))
         THEN JsonFile(json_dump(convs))
         ELSE Garbage(json_load(file.doc))

ConcurrentInit ==
    /\ conv_file \in {NoFile, JsonFile(json_dump(<<OldConversation>>))}
    /\ conversations = load_conversations(conv_file)
    /\ flat_file = <<>>
    /\ sent = <<>>
    /\ call = Call("start", NoArgs)
    /\ ret = NoReturn
    /\ started = 0
    /\ completed = 0
    /\ answered = 0
    /\ ui = Components(conversations)
    /\ chain = NoChain
    /\ running = NoneRunning

\* Listener l takes an event: jd_reply_core(message, speak, [], None) up
\* to the return for a blank text.
Enter(l) ==
    /\ running[l].pc = "idle"
    /\ started < MaxEvents
    /\ \E message \in Messages :
        LET text == strip(message)
        IN  /\ call' = Call(l, [NoArgs EXCEPT !.user_input = message])
            /\ started' = started + 1
            /\ IF text = <<>>
               THEN /\ ret' = Returned(<<>>, "None", None, titles_of(conversations))
                    /\ UNCHANGED running
               ELSE /\ running' = [running EXCEPT ![l] =
                           Invocation("context", text, <<>>, None, <<>>, <<>>, <<>>)]
                    /\ UNCHANGED ret
    /\ UNCHANGED <<conversations, conv_file, flat_file, sent,
                   completed, answered, ui, chain>>

\* messages = build_messages_from_memory() + session turns + user message
Context(l) ==
    /\ running[l].pc = "context"
    /\ running' = [running EXCEPT
           ![l].messages = chat_messages(conversations, running[l].ui_history,
                                         running[l].user_input),
           ![l].pc = "chat"]
    /\ UNCHANGED <<conversations, conv_file, flat_file, sent, call, ret,
                   started, completed, answered, ui, chain>>

\* ollama.chat(...) and ui_history = ui_history + [[user_input, answer]]
Chat(l) ==
    /\ running[l].pc = "chat"
    /\ \E backend \in {Reply(Ok), Failure(Down)} :
        LET answer == chat_answer(backend)
        IN  running' = [running EXCEPT
                ![l].answer = answer,
                ![l].ui_history =
                    Append(running[l].ui_history, <<running[l].user_input, answer>>),
                ![l].pc = "update"]
    /\ sent' = running[l].messages
    /\ UNCHANGED <<conversations, conv_file, flat_file, call, ret,
                   started, completed, answered, ui, chain>>

\* "Update or create conversation" on the global list
Update(l) ==
    /\ running[l].pc = "update"
    /\ \E uuid \in (1..MaxEvents) \ IdsOf(conversations) :
        LET upd == update_or_create(conversations, running[l].ui_history,
                                    running[l].conv_id, uuid)
        IN  /\ conversations' = upd.conversations
            /\ running' = [running EXCEPT ![l].conv_id = upd.conv_id,
                                          ![l].pc = "open"]
    /\ UNCHANGED <<conv_file, flat_file, sent, call, ret,
                   started, completed, answered, ui, chain>>

\* save_conversations: open(path, "w") empties the file
OpenFile(l) ==
    /\ running[l].pc = "open"
    /\ conv_file' = BadFile
    /\ running' = [running EXCEPT ![l].pc = "dump"]
    /\ UNCHANGED <<conversations, flat_file, sent, call, ret,
                   started, completed, answered, ui, chain>>

\* save_conversations: json.dump(convs, f) fills the buffer of f with the
\* text of the global list as it is now
Dump(l) ==
    /\ running[l].pc = "dump"
    /\ running' = [running EXCEPT ![l].buffer = conversations,
                                  ![l].pc = "close"]
    /\ UNCHANGED <<conversations, conv_file, flat_file, sent, call, ret,
                   started, completed, answered, ui, chain>>

\* save_conversations: leaving the with block writes the buffer
CloseFile(l) ==
    /\ running[l].pc = "close"
    /\ conv_file' = written_over(conv_file, running[l].buffer)
    /\ running' = [running EXCEPT ![l].pc = "log"]
    /\ UNCHANGED <<conversations, flat_file, sent, call, ret,
                   started, completed, answered, ui, chain>>

\* log_flat_pair(user_input, answer)
Log(l) ==
    /\ running[l].pc = "log"
    /\ flat_file' = log_flat_pair(flat_file, running[l].user_input,
                                  running[l].answer, "ok").flat
    /\ running' = [running EXCEPT ![l].pc = "return"]
    /\ UNCHANGED <<conversations, conv_file, sent, call, ret,
                   started, completed, answered, ui, chain>>

\* titles = [c["title"] for c in conversations] and the return
Return(l) ==
    /\ running[l].pc = "return"
    /\ ret' = Returned(running[l].ui_history, "None", running[l].conv_id,
                       titles_of(conversations))
    /\ completed' = completed + 1
    /\ running' = [running EXCEPT ![l] = Idle]
    /\ UNCHANGED <<conversations, conv_file, flat_file, sent, call,
                   started, answered, ui, chain>>

ConcurrentNext ==
    \E l \in Listeners :
        \/ Enter(l)
        \/ Context(l)
        \/ Chat(l)
        \/ Update(l)
        \/ OpenFile(l)
        \/ Dump(l)
        \/ CloseFile(l)
        \/ Log(l)
        \/ Return(l)

ConcurrentSpec == ConcurrentInit /\ [][ConcurrentNext]_vars

\* C20: at no time are two jd_reply_core invocations between entry and
\* return.
InvocationsNeverOverlap ==
    Cardinality({l \in Listeners : running[l].pc # "idle"}) <= 1

\* the consequence C20 draws: once two sends that each created a
\* conversation have returned, both conversations are in the snapshot and
\* in the conversations file
BothCreationsAreStored ==
    ((\A l \in Listeners : running[l].pc = "idle") /\ completed = 2)
        => /\ Len(conversations) = Len(load_conversations(conv_file))
           /\ load_conversations(conv_file) = conversations

====
